---- MODULE Spec2Model ----
(***************************************************************************)
(* Model of encoding::binary (buffer.h, buf_fwd.h): the byte-order codecs, *)
(* the runtime-checked basic_buffer and the compile-time-checked           *)
(* basic_static_buffer.                                                    *)
(*                                                                         *)
(* Machine words are sequences of base-256 limbs, least significant limb   *)
(* first: a uintN_t is a sequence of N/8 limbs.  A byte (uint8_t) stored   *)
(* in memory is a number in 0..255.  Addresses are natural numbers.        *)
(***************************************************************************)
EXTENDS Integers, Sequences, FiniteSets, TLC

(***************************************************************************)
(* Bounds of the model.                                                    *)
(***************************************************************************)
\* largest region a dynamic buffer is constructed over
MaxSize == 10
\* largest length / count argument of put(ptr,len), get(ptr,len), skip(count)
MaxLen == 4
\* number of calls made on one buffer
MaxOps == 3
\* width in bits of std::size_t, scaled down to the model
SizeBits == 8

(***************************************************************************)
(* Word arithmetic, as C++ evaluates it on unsigned integers.              *)
(***************************************************************************)
RECURSIVE OrByte(_, _)
\* a | b on two bytes
OrByte(a, b) ==
    IF a = 0 THEN b
    ELSE IF b = 0 THEN a
    ELSE (IF a % 2 = 1 \/ b % 2 = 1 THEN 1 ELSE 0) + 2 * OrByte(a \div 2, b \div 2)

\* conversion of word x to an unsigned type of w bytes (truncate or zero-extend)
Cast(x, w) == [i \in 1..w |-> IF i <= Len(x) THEN x[i] ELSE 0]

\* a byte converted to an unsigned type of w bytes
Word(b, w) == [i \in 1..w |-> IF i = 1 THEN b ELSE 0]

\* uint8_t(x)
U8(x) == x[1]

\* x >> bits, bits a multiple of 8
Shr(x, bits) ==
    [i \in 1..Len(x) |-> IF i + bits \div 8 <= Len(x) THEN x[i + bits \div 8] ELSE 0]

\* x << bits, bits a multiple of 8; bits shifted out of the type are lost
Shl(x, bits) ==
    [i \in 1..Len(x) |-> IF i > bits \div 8 THEN x[i - bits \div 8] ELSE 0]

\* x | y after the usual arithmetic conversions (the wider type wins)
Or(x, y) ==
    LET w == IF Len(x) >= Len(y) THEN Len(x) ELSE Len(y)
    IN  [i \in 1..w |-> OrByte(Cast(x, w)[i], Cast(y, w)[i])]

\* buf[i] of C++ on a sequence of bytes (C++ indexes from 0)
At(buf, i) == buf[i + 1]

(***************************************************************************)
(* endian_base: the one-byte conversions shared by every byte order.       *)
(***************************************************************************)
BaseEncode8(val) == << U8(val) >>
BaseDecode8(buf) == Word(At(buf, 0), 1)

(***************************************************************************)
(* little_endian                                                           *)
(***************************************************************************)
LittleEncode16(val) == << U8(val), U8(Shr(val, 8)) >>

LittleDecode16(buf) ==
    Cast(Or(Cast(Shl(Word(At(buf, 1), 4), 8), 2), Word(At(buf, 0), 4)), 2)

LittleEncode32(val) ==
    << U8(val), U8(Shr(val, 8)), U8(Shr(val, 16)), U8(Shr(val, 24)) >>

LittleDecode32(buf) ==
    Cast(Or(Or(Or(Shl(Word(At(buf, 3), 4), 24),
                  Shl(Word(At(buf, 2), 4), 16)),
               Shl(Word(At(buf, 1), 4), 8)),
            Word(At(buf, 0), 4)), 4)

\* a shift count repeated: byte 5 gets the bits of byte 4
LittleEncode64_Repeated(val) ==
    << U8(val), U8(Shr(val, 8)), U8(Shr(val, 16)), U8(Shr(val, 24)),
       U8(Shr(val, 32)), U8(Shr(val, 32)), U8(Shr(val, 48)), U8(Shr(val, 56)) >>

LittleEncode64(val) ==
    << U8(val), U8(Shr(val, 8)), U8(Shr(val, 16)), U8(Shr(val, 24)),
       U8(Shr(val, 32)), U8(Shr(val, 40)), U8(Shr(val, 48)), U8(Shr(val, 56)) >>

LittleDecode64(buf) ==
    Cast(Or(Or(Or(Or(Or(Or(Or(Shl(Word(At(buf, 7), 8), 56),
                              Shl(Word(At(buf, 6), 8), 48)),
                           Shl(Word(At(buf, 5), 8), 40)),
                        Shl(Word(At(buf, 4), 8), 32)),
                     Shl(Word(At(buf, 3), 8), 24)),
                  Shl(Word(At(buf, 2), 8), 16)),
               Shl(Word(At(buf, 1), 8), 8)),
            Word(At(buf, 0), 4)), 8)

(***************************************************************************)
(* big_endian                                                              *)
(***************************************************************************)
BigEncode16(val) == << U8(Shr(val, 8)), U8(val) >>

BigDecode16(buf) ==
    Cast(Or(Cast(Shl(Word(At(buf, 0), 4), 8), 2), Word(At(buf, 1), 4)), 2)

BigEncode32(val) ==
    << U8(Shr(val, 24)), U8(Shr(val, 16)), U8(Shr(val, 8)), U8(val) >>

\* the two middle bytes taken in the wrong order
BigDecode32_Swapped(buf) ==
    Cast(Or(Or(Or(Shl(Word(At(buf, 0), 4), 24),
                  Shl(Word(At(buf, 2), 4), 16)),
               Shl(Word(At(buf, 1), 4), 8)),
            Word(At(buf, 3), 4)), 4)

BigDecode32(buf) ==
    Cast(Or(Or(Or(Shl(Word(At(buf, 0), 4), 24),
                  Shl(Word(At(buf, 1), 4), 16)),
               Shl(Word(At(buf, 2), 4), 8)),
            Word(At(buf, 3), 4)), 4)

BigEncode64(val) ==
    << U8(Shr(val, 56)), U8(Shr(val, 48)), U8(Shr(val, 40)), U8(Shr(val, 32)),
       U8(Shr(val, 24)), U8(Shr(val, 16)), U8(Shr(val, 8)), U8(val) >>

BigDecode64(buf) ==
    Cast(Or(Or(Or(Or(Or(Or(Or(Shl(Word(At(buf, 0), 8), 56),
                              Shl(Word(At(buf, 1), 8), 48)),
                           Shl(Word(At(buf, 2), 8), 40)),
                        Shl(Word(At(buf, 3), 8), 32)),
                     Shl(Word(At(buf, 4), 8), 24)),
                  Shl(Word(At(buf, 5), 8), 16)),
               Shl(Word(At(buf, 6), 8), 8)),
            Word(At(buf, 7), 4)), 8)

(***************************************************************************)
(* byte_order::encode / byte_order::decode: overload resolution on the     *)
(* width of the value, for the byte order the buffer is instantiated with. *)
(***************************************************************************)
ByteOrders == {"little_endian", "big_endian"}

\* sizeof of the unsigned integer types the codecs are overloaded on
Widths == {1, 2, 4, 8}

Encode(order, val) ==
    CASE Len(val) = 1 -> BaseEncode8(val)
      [] Len(val) = 2 -> IF order = "little_endian" THEN LittleEncode16(val)
                                                    ELSE BigEncode16(val)
      [] Len(val) = 4 -> IF order = "little_endian" THEN LittleEncode32(val)
                                                    ELSE BigEncode32(val)
      [] Len(val) = 8 -> IF order = "little_endian" THEN LittleEncode64(val)
                                                    ELSE BigEncode64(val)

Decode(order, buf, w) ==
    CASE w = 1 -> BaseDecode8(buf)
      [] w = 2 -> IF order = "little_endian" THEN LittleDecode16(buf)
                                             ELSE BigDecode16(buf)
      [] w = 4 -> IF order = "little_endian" THEN LittleDecode32(buf)
                                             ELSE BigDecode32(buf)
      [] w = 8 -> IF order = "little_endian" THEN LittleDecode64(buf)
                                             ELSE BigDecode64(buf)

(***************************************************************************)
(* Access tags (buf_fwd.h) and details::assert_access.                     *)
(***************************************************************************)
AccessTags == {"read_access_tag", "write_access_tag", "read_write_access_tag"}

\* AccessTag::readable
Readable(tag) == tag \in {"read_access_tag", "read_write_access_tag"}

\* AccessTag::writable
Writable(tag) == tag \in {"write_access_tag", "read_write_access_tag"}

\* every tag converts to every required tag
AssertAccess_Any(required, tag) == TRUE

\* assert_access<required>(tag()) compiles exactly when tag converts to required:
\* it is that tag or derives from it
AssertAccess(required, tag) ==
    tag = required \/ tag = "read_write_access_tag"

\* is_readable<BufferType>::value, BufferType::access_tag being tag
is_readable(tag) == Readable(tag)

\* is_writable<BufferType>::value, BufferType::access_tag being tag
is_writable(tag) == Writable(tag)

(***************************************************************************)
(* State.                                                                  *)
(***************************************************************************)
VARIABLES
    order,      \* ByteOrder template argument of the buffer
    access,     \* AccessTag template argument of the buffer
    mem,        \* the caller's memory: address -> byte
    begin_,     \* basic_buffer::begin_
    end_,       \* basic_buffer::end_
    pos_,       \* basic_buffer::pos_
    value,      \* the variable last passed to get(T &value)
    dst,        \* the caller's array passed to get(value_type *dst, length)
    threw,      \* the last call raised std::out_of_range
    lastop,     \* the last call made
    lastw,      \* its width: sizeof(value), length or count
    nops,       \* number of calls made so far
    lastput,    \* where and what the last put(value) wrote, while still intact
    written,    \* the put calls made since construction or reset, nothing else
    expect,     \* what replaying gets after a reset are to return
    due,        \* what the last get was to return when it replayed a put, or NoData
    sumw,       \* sum of the widths of the successful calls since construction or reset
    torn,       \* a put(ptr,length) raised since construction or reset
    sbuf,       \* the basic_static_buffer value the chain has produced last
    sorig,      \* the basic_static_buffer value the chain started from
    ub,         \* a call has accessed memory outside the caller's array
    threads     \* the threads calling put on the one buffer: where each of them is

\* the variables of the dynamic buffer, of the static buffer, and all of them
dynVars == << begin_, end_, pos_, threw, lastput, written, expect, due, sumw, torn >>
staticVars == << sbuf, sorig, ub >>
vars == << order, access, mem, value, dst, lastop, lastw, nops, dynVars, staticVars, threads >>

(***************************************************************************)
(* Inputs of the calls.                                                    *)
(***************************************************************************)
\* 0x01, 0x0102, 0x01020304, 0x0102030405060708
Sample(w) == [i \in 1..w |-> w + 1 - i]

\* 0xff, 0xfeff, 0xfcfdfeff, ...
High(w) == [i \in 1..w |-> 256 - i]

\* Tail of the tests, 0x090a
TailValue == << 10, 9 >>

\* the values the calls of put(value) are given
PutValues(w) == {Sample(w)} \cup (IF w = 2 THEN {TailValue} ELSE {})

\* the caller's source bytes of put(from, length): 5, 6, 7, 8, ... (Middle)
Source(len) == [i \in 1..len |-> 4 + i]

\* std::size_t is an unsigned type of SizeBits bits: arithmetic is modulo SizeMod
SizeMod == 2 ^ SizeBits

\* std::size_t(-1)
SizeMax == SizeMod - 1

Lengths == 0..MaxLen

Counts == Lengths \cup {SizeMax}

\* address of the first byte of the region
Base == 1

\* the modelled memory: Base bytes before the largest region and one after
Addresses == 0..(Base + MaxSize)

NoPut == [at |-> -1, v |-> << >>]

NoData == << -1 >>

NoThreads == << >>

\* the arrays of the tests: BigEndianExpected and LittleEndianExpected, continued
BigEndianExpected(i) == i + 1
LittleEndianExpected(i) ==
    CASE i = 0 -> 4 [] i = 1 -> 3 [] i = 2 -> 2 [] i = 3 -> 1
      [] i = 8 -> 10 [] i = 9 -> 9 [] OTHER -> i + 1

\* the caller's memory before the buffer is constructed over it
InitialMemories ==
    { [a \in Addresses |-> IF a >= Base THEN BigEndianExpected(a - Base) ELSE 0],
      [a \in Addresses |-> IF a >= Base THEN LittleEndianExpected(a - Base) ELSE 0] }

\* no static buffer
NoStatic == [begin |-> 0, Size |-> 0, Offset |-> 0]

(***************************************************************************)
(* basic_buffer                                                            *)
(***************************************************************************)
\* size()
size == end_ - begin_

\* bytes_left()
bytes_left == end_ - pos_

\* the bytes at [p, p + n)
Load(m, p, n) == [i \in 1..n |-> m[p + i - 1]]

\* the store clears one byte more, the one after the bytes of b
Store_Spill(m, p, b) ==
    [a \in DOMAIN m |-> IF p <= a /\ a < p + Len(b) THEN b[a - p + 1]
                         ELSE IF a = p + Len(b) THEN 0 ELSE m[a]]

\* the bytes of b stored at [p, p + Len(b))
Store(m, p, b) ==
    [a \in DOMAIN m |-> IF p <= a /\ a < p + Len(b) THEN b[a - p + 1] ELSE m[a]]

\* basic_buffer(iterator begin, iterator end)
ConstructRange(begin, end) ==
    /\ begin_ = begin
    /\ end_ = end
    /\ pos_ = begin

\* basic_buffer(strict_type (&buf)[Size])
ConstructArray(buf, Size) ==
    /\ begin_ = buf
    /\ end_ = buf + Size
    /\ pos_ = buf

\* basic_buffer(iterator begin, std::size_t length)
ConstructLength(begin, length) ==
    /\ begin_ = begin
    /\ end_ = begin + length
    /\ pos_ = begin

Init ==
    /\ order \in ByteOrders
    /\ access \in AccessTags
    /\ \E len \in 0..MaxSize :
          \/ ConstructRange(Base, Base + len)
          \/ ConstructArray(Base, len)
          \/ ConstructLength(Base, len)
    /\ mem \in InitialMemories
    /\ value = << >>
    /\ dst = [i \in 1..MaxLen |-> 0]
    /\ threw = FALSE
    /\ lastop = "construct"
    /\ lastw = 0
    /\ nops = 0
    /\ lastput = NoPut
    /\ written = << >>
    /\ expect = << >>
    /\ due = NoData
    /\ sumw = 0
    /\ torn = FALSE
    /\ sbuf = NoStatic
    /\ sorig = NoStatic
    /\ ub = FALSE
    /\ threads = NoThreads

\* the bounds check lets one byte too many through
Overflows_OffByOne(n) == bytes_left + 1 < n

\* the bounds check refuses an operand that fits exactly
Overflows_Strict(n) == bytes_left <= n

\* if (bytes_left() < n) throw Overflow;
Overflows(n) == bytes_left < n

\* reset() that leaves the position where it is
Reset_Forgets ==
    /\ nops < MaxOps
    /\ pos_' = pos_
    /\ threw' = FALSE
    /\ lastop' = "reset"
    /\ lastw' = 0
    /\ nops' = nops + 1
    /\ expect' = written
    /\ written' = << >>
    /\ sumw' = 0
    /\ torn' = FALSE
    /\ due' = NoData
    /\ UNCHANGED << order, access, mem, begin_, end_, value, dst, lastput, staticVars, threads >>

\* reset()
Reset ==
    /\ nops < MaxOps
    /\ pos_' = begin_
    /\ threw' = FALSE
    /\ lastop' = "reset"
    /\ lastw' = 0
    /\ nops' = nops + 1
    /\ expect' = written
    /\ written' = << >>
    /\ sumw' = 0
    /\ torn' = FALSE
    /\ due' = NoData
    /\ UNCHANGED << order, access, mem, begin_, end_, value, dst, lastput, staticVars, threads >>

\* put(T value)
PutValue(v) ==
    /\ nops < MaxOps
    /\ AssertAccess("write_access_tag", access)
    /\ lastop' = "put"
    /\ lastw' = Len(v)
    /\ nops' = nops + 1
    /\ IF Overflows(Len(v))
       THEN /\ threw' = TRUE
            /\ UNCHANGED << mem, pos_, lastput, written, sumw >>
       ELSE /\ threw' = FALSE
            /\ mem' = Store(mem, pos_, Encode(order, v))
            /\ pos_' = pos_ + Len(v)
            /\ lastput' = [at |-> pos_, v |-> v]
            /\ written' = IF pos_ = begin_ \/ written # << >>
                          THEN Append(written, [op |-> "put", data |-> v])
                          ELSE << >>
            /\ sumw' = sumw + Len(v)
    /\ expect' = << >>
    /\ due' = NoData
    /\ UNCHANGED << order, access, begin_, end_, value, dst, torn, staticVars, threads >>

RECURSIVE PutLoop_NoAdvance(_, _, _, _)
\* the loop forgets ++pos_: every byte lands on the same address
PutLoop_NoAdvance(m, p, src, from) ==
    IF from # Len(src) + 1 /\ p # end_
    THEN PutLoop_NoAdvance([m EXCEPT ![p] = src[from]], p, src, from + 1)
    ELSE [mem |-> m, pos |-> p, from |-> from]

\* the copy made all-or-nothing: checked before the first byte is written
PutLoop_Checked(m, p, src, from) ==
    IF Len(src) > end_ - p
    THEN [mem |-> m, pos |-> p, from |-> from]
    ELSE [mem |-> Store(m, p, src), pos |-> p + Len(src), from |-> Len(src) + 1]

RECURSIVE PutLoop(_, _, _, _)
\* for (; from != to && pos_ != end_; ++pos_, ++from) *pos_ = *from;
\* from is the index of the next source byte, to the index past the last one
PutLoop(m, p, src, from) ==
    IF from # Len(src) + 1 /\ p # end_
    THEN PutLoop([m EXCEPT ![p] = src[from]], p + 1, src, from + 1)
    ELSE [mem |-> m, pos |-> p, from |-> from]

\* put(const value_type *from, std::size_t length)
PutBytes(src) ==
    /\ nops < MaxOps
    /\ AssertAccess("write_access_tag", access)
    /\ lastop' = "put_bytes"
    /\ lastw' = Len(src)
    /\ nops' = nops + 1
    /\ LET r == PutLoop(mem, pos_, src, 1)
       IN  /\ mem' = r.mem
           /\ pos_' = r.pos
           /\ threw' = (r.from # Len(src) + 1)
           /\ torn' = (torn \/ r.from # Len(src) + 1)
           /\ sumw' = IF r.from # Len(src) + 1 THEN sumw ELSE sumw + Len(src)
           /\ written' = IF r.from = Len(src) + 1 /\ (pos_ = begin_ \/ written # << >>)
                         THEN Append(written, [op |-> "put_bytes", data |-> src])
                         ELSE << >>
           /\ lastput' = IF r.pos = pos_ THEN lastput ELSE NoPut
    /\ expect' = << >>
    /\ due' = NoData
    /\ UNCHANGED << order, access, begin_, end_, value, dst, staticVars, threads >>

\* bookkeeping of a successful get of n bytes: when the next put replayed after the
\* reset was a put of the same kind and width, the get is due to return its data
Replay(op, n) ==
    IF expect # << >> /\ Head(expect).op = op /\ Len(Head(expect).data) = n
    THEN /\ due' = Head(expect).data
         /\ expect' = Tail(expect)
    ELSE /\ due' = NoData
         /\ expect' = << >>

\* get(T &value), T of w bytes
GetValue(w) ==
    /\ nops < MaxOps
    /\ AssertAccess("read_access_tag", access)
    /\ lastop' = "get"
    /\ lastw' = w
    /\ nops' = nops + 1
    /\ IF Overflows(w)
       THEN /\ threw' = TRUE
            /\ due' = NoData
            /\ UNCHANGED << pos_, value, sumw, expect >>
       ELSE /\ threw' = FALSE
            /\ value' = Decode(order, Load(mem, pos_, w), w)
            /\ pos_' = pos_ + w
            /\ sumw' = sumw + w
            /\ Replay("put", w)
    /\ written' = << >>
    /\ UNCHANGED << order, access, mem, begin_, end_, dst, lastput, torn, staticVars, threads >>

\* the copy stops one byte short
Memcpy_Short(d, src, n) == [i \in DOMAIN d |-> IF i < n THEN src[i] ELSE d[i]]

\* std::memcpy(dst, src, n)
Memcpy(d, src, n) == [i \in DOMAIN d |-> IF i <= n THEN src[i] ELSE d[i]]

\* get(value_type *dst, std::size_t length)
GetBytes(length) ==
    /\ nops < MaxOps
    /\ AssertAccess("read_access_tag", access)
    /\ lastop' = "get_bytes"
    /\ lastw' = length
    /\ nops' = nops + 1
    /\ IF Overflows(length)
       THEN /\ threw' = TRUE
            /\ due' = NoData
            /\ UNCHANGED << pos_, dst, sumw, expect >>
       ELSE /\ threw' = FALSE
            /\ dst' = Memcpy(dst, Load(mem, pos_, length), length)
            /\ pos_' = pos_ + length
            /\ sumw' = sumw + length
            /\ Replay("put_bytes", length)
    /\ written' = << >>
    /\ UNCHANGED << order, access, mem, begin_, end_, value, lastput, torn, staticVars, threads >>

\* skip(std::size_t count)
Skip(count) ==
    /\ nops < MaxOps
    /\ lastop' = "skip"
    /\ lastw' = count
    /\ nops' = nops + 1
    /\ IF Overflows(count)
       THEN /\ threw' = TRUE
            /\ UNCHANGED << pos_, sumw >>
       ELSE /\ threw' = FALSE
            /\ pos_' = pos_ + count
            /\ sumw' = sumw + count
    /\ written' = << >>
    /\ expect' = << >>
    /\ due' = NoData
    /\ UNCHANGED << order, access, mem, begin_, end_, value, dst, lastput, torn, staticVars, threads >>

Next ==
    \/ Reset
    \/ \E w \in Widths : \E v \in PutValues(w) : PutValue(v)
    \/ \E len \in Lengths : PutBytes(Source(len))
    \/ \E w \in Widths : GetValue(w)
    \/ \E len \in Lengths : GetBytes(len)
    \/ \E count \in Counts : Skip(count)

Spec == Init /\ [][Next]_vars

(***************************************************************************)
(* The codecs exercised through a read-write buffer over the largest       *)
(* region: the caller's variable, of any width and many values, is put,    *)
(* the buffer is reset, and values of every width are read back into it.   *)
(***************************************************************************)
\* the bytes the caller's values are made of
ByteValues == {0, 1, 255}

\* the values of the caller's variable: every word over ByteValues, and the
\* values the tests use
CodecValues ==
    UNION { [1..w -> ByteValues] \cup PutValues(w) \cup {High(w)} : w \in Widths }

InitCodec ==
    /\ order \in ByteOrders
    /\ access = "read_write_access_tag"
    /\ ConstructArray(Base, MaxSize)
    /\ mem \in InitialMemories
    /\ value \in CodecValues
    /\ dst = [i \in 1..MaxLen |-> 0]
    /\ threw = FALSE
    /\ lastop = "construct"
    /\ lastw = 0
    /\ nops = 0
    /\ lastput = NoPut
    /\ written = << >>
    /\ expect = << >>
    /\ due = NoData
    /\ sumw = 0
    /\ torn = FALSE
    /\ sbuf = NoStatic
    /\ sorig = NoStatic
    /\ ub = FALSE
    /\ threads = NoThreads

NextCodec ==
    \/ PutValue(value)
    \/ Reset
    \/ \E w \in Widths : GetValue(w)

SpecCodec == InitCodec /\ [][NextCodec]_vars

(***************************************************************************)
(* basic_static_buffer<ByteOrder, AccessTag, Size, Offset>: a value is the *)
(* pointer begin_ and the two template arguments Size and Offset.  A call  *)
(* whose enable_if condition is false does not compile: its action is not  *)
(* enabled.  Every member returns a new value; sbuf is the last one made.  *)
(***************************************************************************)
\* a value of type basic_static_buffer<byte_order, access_tag, Size, Offset>
StaticBuffer(begin, Size, Offset) ==
    [begin |-> begin, Size |-> Size, Offset |-> Offset]

\* end()
static_end(b) == b.begin + b.Size

\* pos()
static_pos(b) == b.begin + b.Offset

\* size()
static_size(b) == b.Size

\* bytes_left(): Size - Offset in std::size_t
static_bytes_left(b) == (b.Size - b.Offset) % SizeMod

\* enable_if<sizeof(T) <= (Size - Offset)> and enable_if<Length <= (Size - Offset)>
AdmitsWidth(b, w) == w <= (b.Size - b.Offset) % SizeMod

\* enable_if<(Offset + SkipBytes <= Size)>
AdmitsSkip(b, SkipBytes) == (b.Offset + SkipBytes) % SizeMod <= b.Size

\* the result type basic_static_buffer<byte_order, access_tag, Size, Offset + w>
Advanced(b, w) == StaticBuffer(b.begin, b.Size, (b.Offset + w) % SizeMod)

\* typedef basic_static_buffer<byte_order, access_tag, 0u, Size> buffer_beginning,
\* constructed over begin()
BufferBeginning(b) == StaticBuffer(b.begin, 0, b.Size)

\* the n bytes at address p lie in the array the chain was constructed over
InArray(p, n) ==
    n = 0 \/ (sorig.begin <= p /\ p + n <= sorig.begin + sorig.Size)

\* template arguments of skip<SkipBytes>(): small counts and counts near size_t(-1)
SkipCounts == Lengths \cup {SizeMod - k : k \in 1..MaxLen}

InitStatic ==
    /\ order \in ByteOrders
    /\ access \in AccessTags
    /\ mem \in InitialMemories
    /\ \E Size \in 0..MaxSize : sorig = StaticBuffer(Base, Size, 0)
    /\ sbuf = sorig
    /\ ub = FALSE
    /\ threads = NoThreads
    /\ value = << >>
    /\ dst = [i \in 1..MaxLen |-> 0]
    /\ lastop = "construct"
    /\ lastw = 0
    /\ nops = 0
    /\ begin_ = 0 /\ end_ = 0 /\ pos_ = 0
    /\ threw = FALSE
    /\ lastput = NoPut
    /\ written = << >>
    /\ expect = << >>
    /\ due = NoData
    /\ sumw = 0
    /\ torn = FALSE

\* get(T &value), T of w bytes
StaticGetValue(w) ==
    /\ nops < MaxOps /\ ~ub
    /\ AdmitsWidth(sbuf, w)
    /\ AssertAccess("read_access_tag", access)
    /\ lastop' = "static_get"
    /\ lastw' = w
    /\ nops' = nops + 1
    /\ IF InArray(static_pos(sbuf), w)
       THEN /\ value' = Decode(order, Load(mem, static_pos(sbuf), w), w)
            /\ ub' = FALSE
       ELSE /\ value' \in PutValues(w)
            /\ ub' = TRUE
    /\ sbuf' = Advanced(sbuf, w)
    /\ UNCHANGED << order, access, mem, dst, sorig, dynVars, threads >>

\* get<Length>(value_type *dst)
StaticGetBytes(Length) ==
    /\ nops < MaxOps /\ ~ub
    /\ AdmitsWidth(sbuf, Length)
    /\ AssertAccess("read_access_tag", access)
    /\ lastop' = "static_get_bytes"
    /\ lastw' = Length
    /\ nops' = nops + 1
    /\ IF InArray(static_pos(sbuf), Length)
       THEN /\ dst' = Memcpy(dst, Load(mem, static_pos(sbuf), Length), Length)
            /\ ub' = FALSE
       ELSE /\ dst' \in {dst, Memcpy(dst, Source(Length), Length)}
            /\ ub' = TRUE
    /\ sbuf' = Advanced(sbuf, Length)
    /\ UNCHANGED << order, access, mem, value, sorig, dynVars, threads >>

\* put(T value)
StaticPutValue(v) ==
    /\ nops < MaxOps /\ ~ub
    /\ AdmitsWidth(sbuf, Len(v))
    /\ AssertAccess("write_access_tag", access)
    /\ lastop' = "static_put"
    /\ lastw' = Len(v)
    /\ nops' = nops + 1
    /\ IF InArray(static_pos(sbuf), Len(v))
       THEN /\ mem' = Store(mem, static_pos(sbuf), Encode(order, v))
            /\ ub' = FALSE
       ELSE /\ mem' \in {mem, Store(mem, static_pos(sbuf), Encode(order, v))}
            /\ ub' = TRUE
    /\ sbuf' = Advanced(sbuf, Len(v))
    /\ UNCHANGED << order, access, value, dst, sorig, dynVars, threads >>

\* put<Length>(const_iterator bytes)
StaticPutBytes(bytes) ==
    /\ nops < MaxOps /\ ~ub
    /\ AdmitsWidth(sbuf, Len(bytes))
    /\ AssertAccess("write_access_tag", access)
    /\ lastop' = "static_put_bytes"
    /\ lastw' = Len(bytes)
    /\ nops' = nops + 1
    /\ IF InArray(static_pos(sbuf), Len(bytes))
       THEN /\ mem' = Store(mem, static_pos(sbuf), bytes)
            /\ ub' = FALSE
       ELSE /\ mem' \in {mem, Store(mem, static_pos(sbuf), bytes)}
            /\ ub' = TRUE
    /\ sbuf' = Advanced(sbuf, Len(bytes))
    /\ UNCHANGED << order, access, value, dst, sorig, dynVars, threads >>

\* skip<SkipBytes>()
StaticSkip(SkipBytes) ==
    /\ nops < MaxOps /\ ~ub
    /\ AdmitsSkip(sbuf, SkipBytes)
    /\ lastop' = "static_skip"
    /\ lastw' = SkipBytes
    /\ nops' = nops + 1
    /\ sbuf' = Advanced(sbuf, SkipBytes)
    /\ UNCHANGED << order, access, mem, value, dst, sorig, ub, dynVars, threads >>

\* reset()
StaticReset ==
    /\ nops < MaxOps /\ ~ub
    /\ lastop' = "static_reset"
    /\ lastw' = 0
    /\ nops' = nops + 1
    /\ sbuf' = BufferBeginning(sbuf)
    /\ UNCHANGED << order, access, mem, value, dst, sorig, ub, dynVars, threads >>

\* the variable has followed the chain
rd_buf_Advanced == sbuf

\* the variable rd_buf the chain was started from: the calls of the chain are
\* made on it and on the temporaries they return, and none of them assigns to it
rd_buf == sorig

\* get<T>(rd_buf), T of w bytes: T tmp; buf.get(tmp); return tmp; the buffer
\* that buf.get returns is dropped
FreeGet(w) ==
    /\ nops < MaxOps /\ ~ub
    /\ AdmitsWidth(rd_buf, w)
    /\ AssertAccess("read_access_tag", access)
    /\ lastop' = "free_get"
    /\ lastw' = w
    /\ nops' = nops + 1
    /\ IF InArray(static_pos(rd_buf), w)
       THEN /\ value' = Decode(order, Load(mem, static_pos(rd_buf), w), w)
            /\ ub' = FALSE
       ELSE /\ value' \in PutValues(w)
            /\ ub' = TRUE
    /\ UNCHANGED << order, access, mem, dst, sbuf, sorig, dynVars, threads >>

NextStatic ==
    \/ \E w \in Widths : StaticGetValue(w)
    \/ \E Length \in Lengths : StaticGetBytes(Length)
    \/ \E w \in Widths : \E v \in PutValues(w) : StaticPutValue(v)
    \/ \E Length \in Lengths : StaticPutBytes(Source(Length))
    \/ \E SkipBytes \in SkipCounts : StaticSkip(SkipBytes)
    \/ StaticReset
    \/ \E w \in Widths : FreeGet(w)

SpecStatic == InitStatic /\ [][NextStatic]_vars

(***************************************************************************)
(* Two threads calling put(T value) on one basic_buffer without            *)
(* synchronization.  The accesses to pos_ and to the region race; the      *)
(* outcomes are those of every interleaving of the loads and stores the    *)
(* body of put makes: the bounds check, the evaluation of pos(), the byte  *)
(* stores of encode, and the load and the store of pos_ += sizeof(value).  *)
(***************************************************************************)
Threads == {1, 2}

\* the argument of the put each thread makes
ThreadValues(t) ==
    IF t = 1 THEN {Sample(w) : w \in Widths} ELSE {High(w) : w \in Widths}

InitThreads ==
    /\ order \in ByteOrders
    /\ access \in {tag \in AccessTags : Writable(tag)}
    /\ \E len \in 0..MaxSize : ConstructLength(Base, len)
    /\ mem \in InitialMemories
    /\ \E v1 \in ThreadValues(1) : \E v2 \in ThreadValues(2) :
          threads = [t \in Threads |->
                       [pc |-> "check", value |-> IF t = 1 THEN v1 ELSE v2,
                        buf |-> 0, k |-> 0, reg |-> 0]]
    /\ value = << >>
    /\ dst = [i \in 1..MaxLen |-> 0]
    /\ threw = FALSE
    /\ lastop = "construct"
    /\ lastw = 0
    /\ nops = 0
    /\ lastput = NoPut
    /\ written = << >>
    /\ expect = << >>
    /\ due = NoData
    /\ sumw = 0
    /\ torn = FALSE
    /\ sbuf = NoStatic
    /\ sorig = NoStatic
    /\ ub = FALSE

\* what no step of a thread changes
threadFrame ==
    << order, access, begin_, end_, value, dst, threw, lastop, lastw, nops,
       lastput, written, expect, due, sumw, torn, sbuf, sorig >>

\* if (bytes_left() < sizeof(value)) throw Overflow;
ThreadCheck(t) ==
    /\ threads[t].pc = "check"
    /\ AssertAccess("write_access_tag", access)
    /\ threads' = [threads EXCEPT ![t].pc =
                      IF Overflows(Len(threads[t].value)) THEN "raised" ELSE "encode"]
    /\ UNCHANGED << mem, pos_, ub, threadFrame >>

\* pos(), the argument buf of byte_order::encode(value, pos())
ThreadPos(t) ==
    /\ threads[t].pc = "encode"
    /\ threads' = [threads EXCEPT ![t].pc = "store", ![t].buf = pos_, ![t].k = 0]
    /\ UNCHANGED << mem, pos_, ub, threadFrame >>

\* buf[k] = uint8_t(val >> ...), one of the stores of encode; a store at an
\* address outside the modelled memory is not seen in mem
ThreadStore(t) ==
    /\ threads[t].pc = "store"
    /\ LET b == Encode(order, threads[t].value)
           k == threads[t].k
           a == threads[t].buf + k
       IN  /\ IF a \in DOMAIN mem
              THEN mem' = [mem EXCEPT ![a] = b[k + 1]] /\ ub' = ub
              ELSE mem' = mem /\ ub' = TRUE
           /\ threads' = [threads EXCEPT ![t].k = k + 1,
                             ![t].pc = IF k + 1 = Len(b) THEN "advance" ELSE "store"]
    /\ UNCHANGED << pos_, threadFrame >>

\* pos_ += sizeof(value): the load of pos_
ThreadLoad(t) ==
    /\ threads[t].pc = "advance"
    /\ threads' = [threads EXCEPT ![t].pc = "assign", ![t].reg = pos_]
    /\ UNCHANGED << mem, pos_, ub, threadFrame >>

\* the store never moves pos_ past end_
ThreadAssign_Clamped(t) ==
    /\ threads[t].pc = "assign"
    /\ pos_' = IF threads[t].reg + Len(threads[t].value) <= end_
               THEN threads[t].reg + Len(threads[t].value) ELSE end_
    /\ threads' = [threads EXCEPT ![t].pc = "done"]
    /\ UNCHANGED << mem, ub, threadFrame >>

\* pos_ += sizeof(value): the store of pos_; return *this
ThreadAssign(t) ==
    /\ threads[t].pc = "assign"
    /\ pos_' = threads[t].reg + Len(threads[t].value)
    /\ threads' = [threads EXCEPT ![t].pc = "done"]
    /\ UNCHANGED << mem, ub, threadFrame >>

NextThreads ==
    \/ \E t \in Threads : ThreadCheck(t)
    \/ \E t \in Threads : ThreadPos(t)
    \/ \E t \in Threads : ThreadStore(t)
    \/ \E t \in Threads : ThreadLoad(t)
    \/ \E t \in Threads : ThreadAssign(t)

SpecThreads == InitThreads /\ [][NextThreads]_vars

(***************************************************************************)
(* Properties of the dynamic buffer.                                       *)
(***************************************************************************)
\* a step that is a call of one of the operations in ops
Calls(ops) == nops' = nops + 1 /\ lastop' \in ops

Min(a, b) == IF a <= b THEN a ELSE b

\* (v >> 8*k) mod 256
Digit(v, k) == U8(Shr(v, 8 * k))

RECURSIVE Num(_)
\* the number a word stands for
Num(x) == IF x = << >> THEN 0 ELSE x[1] + 256 * Num(Tail(x))

RECURSIVE Pow256(_)
Pow256(k) == IF k = 0 THEN 1 ELSE 256 * Pow256(k - 1)

\* C1: begin <= pos <= end in every reachable state of a dynamic buffer, whatever
\* calls were made and whether they returned or raised out-of-range.
C1_PosWithinBounds == begin_ <= pos_ /\ pos_ <= end_

\* a skip has raised with the position strictly inside the region
C1_Witness ==
    /\ lastop = "skip" /\ threw
    /\ begin_ < pos_ /\ pos_ < end_

\* C2: put(value), get(value) of width W and skip(count) raise exactly when the
\* width or count exceeds bytes_left(), and a raising call changes neither pos
\* nor any byte of memory.
C2_FixedWidthCheckedBeforeMutation ==
    [][ Calls({"put", "get", "skip"}) =>
          /\ threw' <=> (lastw' > bytes_left)
          /\ threw' => (pos_' = pos_ /\ mem' = mem) ]_vars

\* a put(value) has raised although some bytes, too few, were left
C2_Witness ==
    /\ lastop = "put" /\ threw
    /\ 0 < bytes_left /\ bytes_left < lastw

\* C3: a get of W bytes at the position where the last put(value) of W bytes
\* wrote v, with the buffer's byte order and the bytes untouched since, yields v.
C3_RoundTrip ==
    ( /\ lastop = "get" /\ ~threw
      /\ lastput # NoPut
      /\ lastput.at = pos_ - lastw
      /\ Len(lastput.v) = lastw )
    => value = lastput.v

\* an 8-byte value was put little-endian and read back from the same position
C3_Witness ==
    /\ lastop = "get" /\ ~threw /\ lastw = 8
    /\ lastput # NoPut /\ lastput.at = pos_ - 8 /\ Len(lastput.v) = 8
    /\ order = "little_endian"

\* the layout rule: byte i of the W bytes at p is digit W-1-i of v big-endian and
\* digit i of v little-endian
Layout(v, p, w) ==
    \A i \in 0..(w - 1) :
        /\ mem[p + i] = IF order = "big_endian" THEN Digit(v, w - 1 - i)
                                                ELSE Digit(v, i)
        /\ w <= 2 =>
             mem[p + i] = IF order = "big_endian"
                          THEN (Num(v) \div Pow256(w - 1 - i)) % 256
                          ELSE (Num(v) \div Pow256(i)) % 256

\* C4: a successful put of a W-byte value v at p leaves (v >> 8*(W-1-i)) mod 256
\* at p+i under big-endian and (v >> 8*i) mod 256 under little-endian, and a
\* successful get of W bytes returns the value whose digits are those bytes;
\* with the examples of the tests.
C4_ByteLayout ==
    /\ (lastop = "put" /\ ~threw) => Layout(lastput.v, pos_ - lastw, lastw)
    /\ (lastop = "get" /\ ~threw) =>
          /\ Len(value) = lastw
          /\ Layout(value, pos_ - lastw, lastw)
    /\ (lastop = "put" /\ ~threw /\ lastput.v = << 4, 3, 2, 1 >>) =>
          /\ Num(lastput.v) = 16909060
          /\ Load(mem, lastput.at, 4) = IF order = "big_endian"
                                        THEN << 1, 2, 3, 4 >>
                                        ELSE << 4, 3, 2, 1 >>
    /\ ( /\ lastop = "get" /\ ~threw /\ lastw = 8 /\ order = "big_endian"
         /\ Load(mem, pos_ - 8, 8) = << 1, 2, 3, 4, 5, 6, 7, 8 >> )
       => value = << 8, 7, 6, 5, 4, 3, 2, 1 >>
    /\ ( /\ lastop = "get" /\ ~threw /\ lastw = 8 /\ order = "little_endian"
         /\ Load(mem, pos_ - 8, 8) = << 4, 3, 2, 1, 5, 6, 7, 8 >> )
       => value = << 4, 3, 2, 1, 5, 6, 7, 8 >>

\* 0x01020304 was put, then eight bytes 04 03 02 01 05 06 07 08 were read
\* little-endian from the start of the region
C4_Witness ==
    /\ lastop = "get" /\ ~threw /\ lastw = 8 /\ order = "little_endian"
    /\ lastput # NoPut /\ lastput.v = << 4, 3, 2, 1 >> /\ lastput.at = begin_
    /\ Load(mem, pos_ - 8, 8) = << 4, 3, 2, 1, 5, 6, 7, 8 >>

\* the puts made are a 4-byte value, 4 raw bytes and a 2-byte value, from begin
ChainedWrites ==
    /\ Len(written) = 3
    /\ written[1].op = "put" /\ Len(written[1].data) = 4
    /\ written[2].op = "put_bytes" /\ Len(written[2].data) = 4
    /\ written[3].op = "put" /\ Len(written[3].data) = 2

\* C5: construction leaves pos = begin and bytes_left() = size(); every put, get
\* and skip that returns advances pos by exactly its width, length or count; as
\* long as no put(ptr,length) has raised since construction or the last reset,
\* bytes_left() is size() less the widths of the calls that succeeded since; a
\* 4-byte put, a 4-byte raw put and a 2-byte put fill a 10-byte buffer exactly.
C5_PositionAccounting ==
    /\ [](nops = 0 => (pos_ = begin_ /\ bytes_left = size))
    /\ [][ (Calls({"put", "put_bytes", "get", "get_bytes", "skip"}) /\ ~threw') =>
             pos_' = pos_ + lastw' ]_vars
    /\ [](~torn => bytes_left = size - sumw)
    /\ []((size = 10 /\ ChainedWrites) => (pos_ = end_ /\ bytes_left = 0))

\* the chain of the tests has filled a 10-byte buffer
C5_Witness == size = 10 /\ ChainedWrites /\ sumw = 10 /\ ~torn

C7_PutBytesPartial ==
    [][ Calls({"put_bytes"}) =>
          LET n == Min(lastw', bytes_left)
          IN  /\ pos_' = pos_ + n
              /\ Load(mem', pos_, n) = SubSeq(Source(lastw'), 1, n)
              /\ threw' <=> (lastw' > bytes_left)
              /\ threw' => pos_' = end_ ]_vars

\* four bytes were put into a fresh 2-byte buffer: two were written, pos = end
C7_Witness ==
    /\ lastop = "put_bytes" /\ threw /\ nops = 1
    /\ size = 2 /\ lastw = 4 /\ pos_ = end_
    /\ Load(mem, begin_, 2) = << 5, 6 >>

\* C8: get(dst,length) raises exactly when bytes_left() < length and then changes
\* neither pos nor dst; otherwise dst receives the length bytes at pos, whatever
\* the byte order, and pos advances by length.
C8_GetBytesAtomic ==
    [][ Calls({"get_bytes"}) =>
          /\ threw' <=> (bytes_left < lastw')
          /\ threw' => (pos_' = pos_ /\ dst' = dst)
          /\ ~threw' =>
               /\ SubSeq(dst', 1, lastw') = Load(mem, pos_, lastw')
               /\ \A i \in (lastw' + 1)..Len(dst) : dst'[i] = dst[i]
               /\ pos_' = pos_ + lastw' ]_vars

\* four bytes were read from a little-endian buffer in memory order
C8_Witness ==
    /\ lastop = "get_bytes" /\ ~threw /\ lastw = 4 /\ nops = 1
    /\ order = "little_endian"
    /\ SubSeq(dst, 1, 4) = << 4, 3, 2, 1 >>

(***************************************************************************)
(* Properties of the static buffer.                                        *)
(***************************************************************************)
StaticOps ==
    {"static_put", "static_put_bytes", "static_get", "static_get_bytes", "static_skip"}

\* the chain has produced sbuf from the initial value without a reset
NoResetYet == sbuf.Size = sorig.Size /\ sbuf.begin = sorig.begin

\* C9: on a static buffer reached from Offset 0 by put, get and skip, a call of
\* width w is admitted only if w <= Size - Offset, every skip with
\* w <= Size - Offset is admitted, and the result has the same begin and Size
\* and Offset + w.
C9_StaticOffsetTyping ==
    /\ [][ (Calls(StaticOps) /\ NoResetYet) =>
             /\ lastw' <= sbuf.Size - sbuf.Offset
             /\ sbuf' = StaticBuffer(sbuf.begin, sbuf.Size, sbuf.Offset + lastw') ]_vars
    /\ []( (NoResetYet /\ nops < MaxOps /\ ~ub) =>
             \A w \in SkipCounts :
                 w <= sbuf.Size - sbuf.Offset => ENABLED StaticSkip(w) )

\* C10: reset() on a static buffer returns a value with Offset 0, the same begin
\* and the same Size: size() unchanged, bytes_left() = Size, pos() = begin().
C10_StaticReset ==
    [][ Calls({"static_reset"}) =>
          /\ sbuf'.Offset = 0
          /\ sbuf'.begin = sbuf.begin
          /\ sbuf'.Size = sbuf.Size
          /\ static_size(sbuf') = static_size(sbuf)
          /\ static_bytes_left(sbuf') = sbuf.Size
          /\ static_pos(sbuf') = sbuf.begin ]_vars

\* C11: every static buffer value reached from (Size = S, Offset = 0) by admitted
\* put, get, skip and reset has Offset <= Size = S, its bytes_left() is
\* Size - Offset without wrapping, and no admitted put or get has touched a byte
\* outside [begin, begin + S).
C11_StaticNoRuntimeFailure ==
    /\ sbuf.Offset <= sbuf.Size
    /\ sbuf.Size = sorig.Size
    /\ sbuf.begin = sorig.begin
    /\ static_bytes_left(sbuf) = sbuf.Size - sbuf.Offset
    /\ ~ub

\* C13: put, get, skip and reset on a static buffer value leave that value as it
\* was (same begin, Size and Offset) and return a new value; after a chain
\* started from a buffer b with Offset 0, a get on b itself reads at offset 0:
\* eight bytes 01..08 read big-endian give 0x0102030405060708.
C13_StaticValueSemantics ==
    /\ [][ Calls(StaticOps \cup {"static_reset", "free_get"}) =>
             /\ sorig' = sorig
             /\ (nops = 0 /\ lastop' \in StaticOps /\ lastw' > 0) => sbuf' # sorig
             /\ lastop' = "free_get" =>
                   /\ sbuf' = sbuf
                   /\ (~ub' /\ value' = Decode(order, Load(mem, sorig.begin, lastw'), lastw')) ]_vars
    /\ []( sorig.Offset = 0 /\ sorig.begin = Base )
    /\ []( ( /\ lastop = "free_get" /\ lastw = 8 /\ order = "big_endian"
             /\ Load(mem, sorig.begin, 8) = << 1, 2, 3, 4, 5, 6, 7, 8 >> )
           => value = << 8, 7, 6, 5, 4, 3, 2, 1 >> )

\* a ten-byte buffer was read to its end by a chain, and eight bytes were then
\* read from the buffer the chain started from
C13_Witness ==
    /\ lastop = "free_get" /\ lastw = 8 /\ order = "big_endian"
    /\ sorig.Size = 10 /\ sbuf.Size = 10 /\ sbuf.Offset = 10
    /\ value = Sample(8)
    /\ ~ub

(***************************************************************************)
(* Frame conditions of the dynamic buffer.                                 *)
(***************************************************************************)
\* the bytes outside [p, p + n) are the same before and after the step
OnlyBytes(p, n) ==
    \A a \in Addresses : (a < p \/ a >= p + n) => mem'[a] = mem[a]

\* C14: begin, end and size() never change after construction; get(value),
\* get(ptr,length), skip(count) and reset() change no byte; a successful
\* put(value) of width W at position p changes only bytes p..p+W-1 and a
\* put(ptr,length) only bytes p..p+min(length,bytes_left)-1, every other byte
\* keeping its value.
C14_Frame ==
    [][ /\ begin_' = begin_ /\ end_' = end_ /\ size' = size
        /\ Calls({"get", "get_bytes", "skip", "reset"}) => mem' = mem
        /\ (Calls({"put"}) /\ ~threw') => OnlyBytes(pos_, lastw')
        /\ Calls({"put_bytes"}) => OnlyBytes(pos_, Min(lastw', bytes_left)) ]_vars

\* 0x090a was put at the second byte of a big-endian region, between bytes that
\* still hold what the caller's array held
C14_Witness ==
    /\ lastop = "put" /\ ~threw /\ lastw = 2 /\ order = "big_endian"
    /\ pos_ = begin_ + 3 /\ pos_ < end_
    /\ Load(mem, begin_, 4) = << 1, 9, 10, 4 >>

(***************************************************************************)
(* Two unsynchronized threads.                                             *)
(***************************************************************************)
\* both calls of put have returned
BothDone == threads # NoThreads /\ \A t \in Threads : threads[t].pc = "done"

\* the widths of the two values
ThreadWidth(t) == Len(threads[t].value)

\* C15: two threads call put(value) on one buffer without synchronization, each
\* put being the steps check bytes_left, encode at pos, advance pos.  Whenever
\* both calls return although the region has room for only one of the values,
\* both values were encoded at the same position or pos has ended past end; and
\* where both were encoded at one position, each byte there is a byte of one of
\* the two values, so a value was lost.  Such runs exist: begin <= pos <= end and
\* the layout of the single-threaded buffer do not hold here.
C15_UnsynchronizedPut ==
    BothDone =>
        /\ size < ThreadWidth(1) + ThreadWidth(2) =>
              (threads[1].buf = threads[2].buf \/ pos_ > end_)
        /\ threads[1].buf = threads[2].buf =>
              /\ threads[1].buf = begin_
              /\ \A i \in 1..Min(ThreadWidth(1), ThreadWidth(2)) :
                    mem[begin_ + i - 1] \in { Encode(order, threads[1].value)[i],
                                              Encode(order, threads[2].value)[i] }
              /\ pos_ < begin_ + ThreadWidth(1) + ThreadWidth(2) =>
                    pos_ \in {begin_ + ThreadWidth(1), begin_ + ThreadWidth(2)}

\* both threads passed the check of a four-byte region with a four-byte value,
\* both encoded at begin, the value of thread 1 is lost, and pos is past end
C15_Witness ==
    /\ BothDone
    /\ size = 4 /\ ThreadWidth(1) = 4 /\ ThreadWidth(2) = 4
    /\ threads[1].buf = begin_ /\ threads[2].buf = begin_
    /\ Load(mem, begin_, 4) = Encode(order, threads[2].value)
    /\ pos_ = end_ + 4

(***************************************************************************)
(* Capabilities.                                                           *)
(***************************************************************************)
\* C12: a get is made only on a readable buffer and a put only on a writable one:
\* a write-only buffer admits no get, a read-only buffer no put, a read-write
\* buffer both; is_readable/is_writable are (false, true), (true, false) and
\* (true, true) for the three tags; and what a call writes, returns and adds to
\* the cursor is given by the byte order, the memory and the cursor alone.
C12_Capabilities ==
    /\ [][ /\ Calls({"get", "get_bytes"}) => Readable(access)
           /\ Calls({"put", "put_bytes"}) => Writable(access) ]_vars
    /\ []( nops < MaxOps =>
             /\ (ENABLED GetValue(1)) <=> Readable(access)
             /\ (ENABLED GetBytes(1)) <=> Readable(access)
             /\ (ENABLED PutValue(Sample(1))) <=> Writable(access)
             /\ (ENABLED PutBytes(Source(1))) <=> Writable(access) )
    /\ []( /\ << is_readable("write_access_tag"), is_writable("write_access_tag") >>
               = << FALSE, TRUE >>
           /\ << is_readable("read_access_tag"), is_writable("read_access_tag") >>
               = << TRUE, FALSE >>
           /\ << is_readable("read_write_access_tag"),
                 is_writable("read_write_access_tag") >> = << TRUE, TRUE >>
           /\ is_readable(access) = Readable(access)
           /\ is_writable(access) = Writable(access) )
    /\ [][ /\ (Calls({"put"}) /\ ~threw') =>
                /\ mem' = Store(mem, pos_, Encode(order, lastput'.v))
                /\ pos_' = pos_ + lastw'
           /\ (Calls({"get"}) /\ ~threw') =>
                /\ value' = Decode(order, Load(mem, pos_, lastw'), lastw')
                /\ pos_' = pos_ + lastw'
           /\ Calls({"put_bytes"}) =>
                /\ mem' = Store(mem, pos_, SubSeq(Source(lastw'), 1, Min(lastw', bytes_left)))
                /\ pos_' = pos_ + Min(lastw', bytes_left)
           /\ (Calls({"get_bytes"}) /\ ~threw') =>
                /\ dst' = Memcpy(dst, Load(mem, pos_, lastw'), lastw')
                /\ pos_' = pos_ + lastw' ]_vars

\* a write-only little-endian buffer has taken a four-byte put
C12_Witness ==
    /\ access = "write_access_tag" /\ ~is_readable(access) /\ is_writable(access)
    /\ lastop = "put" /\ ~threw /\ lastw = 4
    /\ order = "little_endian"
    /\ Load(mem, pos_ - 4, 4) = << 4, 3, 2, 1 >>
====
